---- MODULE Spec2Model ----
(***************************************************************************)
(* The --scan-pll sweep of the antmicro_lpddr4_test_board target:          *)
(* main() of litex_boards/targets/antmicro_lpddr4_test_board.py, lines     *)
(* 196-231, together with the clock configuration _CRG submits to the PLL  *)
(* (lines 30-46); then the rest of main() of that target and of the        *)
(* lpddr4_test_board and digilent_arty targets: building the SoC, loading  *)
(* and flashing the bitstream, and reloading the BIOS over the remote bus.  *)
(*                                                                         *)
(* Frequencies are in Hz.  The code computes on Python floats; the inputs  *)
(* drawn here are integer-valued and far below 2^53, so fmax - fmin,       *)
(* fmin + i*fstep and freq - prev are exact, floor((fmax-fmin)/fstep) is   *)
(* the integer floor quotient, and the comparison with fstep*1.001 is      *)
(* never within rounding distance of equality.                             *)
(*                                                                         *)
(* The PLL (S7PLL, its finalize) is a collaborator outside the repository: *)
(* its answer to each submitted configuration is a nondeterministic choice *)
(* among the outcomes the scan distinguishes.                              *)
(***************************************************************************)
EXTENDS Integers, Sequences, FiniteSets, TLC

\* ------------------------------------------------------------------ bounds
\* The swept inputs are taken from the grid FreqBase + k*FreqUnit, k in 0..MaxK.
MaxK == 4

MHz == 1000 * 1000
FreqBase == 40 * MHz
FreqUnit == 5 * MHz
FreqGrid == {FreqBase + k * FreqUnit : k \in 0..MaxK}

\* The command lines explored: --scan-pll fmin fmax fstep on the grid (with a
\* negative and a zero step, which the parser accepts as well), plus the sweep
\* 100 112 1 of twelve candidates.
ScanArgs ==
    {<<a, b, s>> : a \in FreqGrid, b \in FreqGrid,
                   s \in {0 - FreqUnit, 0, FreqUnit, 2 * FreqUnit}}
    \cup {<<100, 112, 1>>}

\* --iodelay-clk-freq, default 200e6
IoDelayArgs == {200 * MHz, 400 * MHz}

\* What crg.finalize() can do: return, or raise an exception.  Of an exception
\* the scan looks at its type (ValueError or not) and at whether its message
\* contains "No PLL config found"; the PLL raises that message as a ValueError.
Returned   == [raises |-> FALSE, type |-> "none",       nopll |-> FALSE]
NoPllFound == [raises |-> TRUE,  type |-> "ValueError", nopll |-> TRUE]
OtherValueError == [raises |-> TRUE, type |-> "ValueError", nopll |-> FALSE]
OtherException  == [raises |-> TRUE, type |-> "Exception",  nopll |-> FALSE]
Outcomes == {Returned, NoPllFound, OtherValueError, OtherException}

VARIABLES
    pc,                 \* position in main()
    fmin, fmax, fstep,  \* args.scan_pll, as floats
    iodelay_clk_freq,   \* int(float(args.iodelay_clk_freq))
    n,                  \* length of range(math.floor((fmax - fmin) / fstep))
    i,                  \* next index the range yields
    found,              \* the list found
    out,                \* what has been printed on stdout, one entry per print
    calls,              \* the configurations submitted to the PLL and its answers
    exitcode,           \* <<>> while the process runs, then <<status>>
    target,             \* which target's main() runs
    args,               \* the other command-line options
    effects,            \* what the process did outside itself, in order
    rom_data,           \* get_mem_data(bios_bin, "little")
    rom_base,           \* wb.mems.rom.base
    burst,              \* memwrite's burst
    w,                  \* memwrite's i, the word index of the next chunk
    run,                \* 1 in the first run of the command, 2 in a second run
    prev_run,           \* what the first run submitted, printed and returned
    opts,               \* the options the SoC is constructed from
    soc,                \* the SoC under construction: its kwargs and its parts
    crg,                \* the signals and registers of the ECP5 DC-SCM _CRG
    edges               \* the clk100 edges since power-on

\* what the sweep does not touch
mainvars == <<target, args, effects, rom_data, rom_base, burst, w>>

vars == <<pc, fmin, fmax, fstep, iodelay_clk_freq, n, i, found, out, calls, exitcode,
          target, args, effects, rom_data, rom_base, burst, w, run, prev_run,
          opts, soc, crg, edges>>

\* what only starting the command again touches
twinvars == <<run, prev_run>>

\* what only the construction of a SoC touches
socvars == <<opts, soc>>

\* what only the gateware of the ECP5 DC-SCM clock generator touches
hwvars == <<crg, edges>>

\* ------------------------------------------------------------ pure helpers

\* no SoC is being constructed
NoOpts == [with_sdram |-> FALSE, with_ethernet |-> FALSE, with_etherbone |-> FALSE,
           eth_dynamic_ip |-> FALSE, with_video |-> FALSE,
           integrated_main_ram_size |-> 0, sys_clk_freq |-> 0]
NoSoC == [kwargs |-> [integrated_rom_size |-> 0, integrated_main_ram_size |-> 0],
          clock_domains |-> {}, clkouts |-> {}, submodules |-> {}]

\* por_count = Signal(16, reset=2**16-1)
PorWidth == 16
PorReset == 2^PorWidth - 1

\* the two flip-flops of an AsyncResetSynchronizer, both preset
Preset == [rst1 |-> TRUE, rst |-> TRUE]

\* the clock generator when the FPGA has been configured: the counter at its
\* reset value, the synchronizers preset, the inputs low.  self.stop only
\* withholds clock edges of sys2x and sys, which the model may always do, so
\* it is not part of the state.
PowerOn == [por_count |-> PorReset, rst |-> FALSE, reset |-> FALSE,
            locked |-> FALSE, cd_sys |-> Preset, cd_sys2x |-> Preset]

\* math.floor(a / b) for b # 0
FloorDiv(a, b) == IF b > 0 THEN a \div b ELSE (0 - a) \div (0 - b)

\* the reference clock registered with the PLL
ClkInFreq == 100 * MHz

\* verbose = False
verbose == FALSE

\* one print() on stdout: its kind and, for a line that shows a frequency,
\* the number shown
Line(kind, val) == [kind |-> kind, val |-> val]

\* f"{freq/1e6:6.2f}": the frequency in MHz rounded to two decimals, given as
\* the number of hundredths of a MHz shown.  (A frequency exactly half way
\* between two hundredths is rounded by the binary value of freq/1e6; none
\* of the frequencies explored is one.)
FormatMHz(freq) == (freq + 5000) \div 10000

\* variant of Candidate: the index counted from 1
Candidate_FromOne(lo, step, k) == lo + (k + 1) * step

\* freq = fmin + i * fstep
Candidate(lo, step, k) == lo + k * step

\* variant of NumCandidates: math.ceil in place of math.floor
NumCandidates_Ceil(lo, hi, step) == 0 - FloorDiv(lo - hi, step)

\* variant of NumCandidates: the range made to include its upper end
NumCandidates_Inclusive(lo, hi, step) == FloorDiv(hi - lo, step) + 1

\* variant of NumCandidates: the width of the range taken as a distance
NumCandidates_Abs(lo, hi, step) ==
    FloorDiv(IF hi < lo THEN lo - hi ELSE hi - lo, step)

\* math.floor((fmax - fmin) / fstep)
NumCandidates(lo, hi, step) == FloorDiv(hi - lo, step)

\* variant of NextIndex: the same candidate is tried again
NextIndex_Retry(k) == k

\* for i in range(...): the index after k
NextIndex(k) == k + 1

\* variant of CRGConfig: one PLL shared by all candidates, which keeps the
\* outputs it was first given
CRGConfig_SharedPll(sys_clk_freq, idelay_freq) ==
    IF calls = <<>>
    THEN [clkin  |-> ClkInFreq,
          sys    |-> sys_clk_freq,
          sys2x  |-> 2 * sys_clk_freq,
          sys8x  |-> 8 * sys_clk_freq,
          idelay |-> idelay_freq]
    ELSE calls[1].cfg

\* variant of CRGConfig: the 8x clock requested at 4x
CRGConfig_Sys8xAt4x(sys_clk_freq, idelay_freq) ==
    [clkin  |-> ClkInFreq,
     sys    |-> sys_clk_freq,
     sys2x  |-> 2 * sys_clk_freq,
     sys8x  |-> 4 * sys_clk_freq,
     idelay |-> idelay_freq]

\* variant of CRGConfig: the system clock taken from --sys-clk-freq
CRGConfig_FromSysClkArg(sys_clk_freq, idelay_freq) ==
    [clkin  |-> ClkInFreq,
     sys    |-> args.sys_clk_freq,
     sys2x  |-> 2 * args.sys_clk_freq,
     sys8x  |-> 8 * args.sys_clk_freq,
     idelay |-> idelay_freq]

\* _CRG.__init__: the reference clock and the four outputs given to the PLL
CRGConfig(sys_clk_freq, idelay_freq) ==
    [clkin  |-> ClkInFreq,
     sys    |-> sys_clk_freq,
     sys2x  |-> 2 * sys_clk_freq,
     sys8x  |-> 8 * sys_clk_freq,
     idelay |-> idelay_freq]

\* except ValueError as e
Caught(e) == e.type = "ValueError"

\* variant of Reraised: every caught ValueError is raised again
Reraised_Always(e) == TRUE

\* variant of Reraised: no caught ValueError is raised again
Reraised_Never(e) == FALSE

\* if "No PLL config found" not in str(e): raise
Reraised(e) == ~e.nopll

\* variant of FoundAfter: found.append(freq) placed before crg.finalize()
FoundAfter_BeforeFinalize(fs, freq, r) == Append(fs, freq)

\* crg.finalize(); found.append(freq): the list after a trial the PLL answered r
FoundAfter(fs, freq, r) == IF r.raises THEN fs ELSE Append(fs, freq)

\* variant of Progress: the two marks exchanged
Progress_Swapped(r) ==
    IF r.raises
    THEN Line(IF verbose THEN "OK" ELSE ".", 0)
    ELSE Line(IF verbose THEN "FAIL" ELSE "X", 0)

\* the mark printed after a trial that did not end the scan
Progress(r) ==
    IF r.raises
    THEN Line(IF verbose THEN "FAIL" ELSE "X", 0)
    ELSE Line(IF verbose THEN "OK" ELSE ".", 0)

\* variant of GapExceeds: >= fstep, without the tolerance
GapExceeds_AtLeast(gap, step) == gap >= step

\* (freq - prev) > fstep * 1.001, for an integer gap and step: gap > 1.001*step
\* iff gap - step > step/1000 iff gap - step > floor(step/1000)
GapExceeds(gap, step) == gap - step > step \div 1000

\* prev is None or (freq - prev) > fstep * 1.001; prev is <<>> for None
NeedSeparator(prev, freq, step) ==
    \/ prev = <<>>
    \/ /\ prev # <<>>
       /\ GapExceeds(freq - prev[1], step)

\* the loop "for freq in found" of the report, from position k on
RECURSIVE ReportLines(_, _, _, _)
ReportLines(fs, k, prev, step) ==
    IF k > Len(fs) THEN <<>>
    ELSE (IF NeedSeparator(prev, fs[k], step) THEN <<Line("---", 0)>> ELSE <<>>)
         \o <<Line("freq", FormatMHz(fs[k]))>>
         \o ReportLines(fs, k + 1, <<fs[k]>>, step)

\* variant of ScanExitStatus: a sweep that found nothing exits with status 1
ScanExitStatus_ByFound == IF found = <<>> THEN 1 ELSE 0

\* sys.exit(0)
ScanExitStatus == 0

\* an exception nothing catches ends the interpreter with status 1
UncaughtExitStatus == 1

\* def memwrite(wb, data, *, base, burst=0xff)
DefaultBurst == 255

\* the options of main() besides --scan-pll's three numbers and
\* --iodelay-clk-freq: whether --scan-pll is given, the action flags, and
\* --sys-clk-freq
Args(scan, build, load, flash, load_bios, rw_bios_mem, sys_clk_freq) ==
    [scan_pll |-> scan, build |-> build, load |-> load, flash |-> flash,
     load_bios |-> load_bios, rw_bios_mem |-> rw_bios_mem,
     sys_clk_freq |-> sys_clk_freq]

\* --scan-pll alone, every other option at its default
ScanOnlyArgs == Args(TRUE, FALSE, FALSE, FALSE, FALSE, FALSE, 50 * MHz)

\* before a second run there is no first run to compare with
NoPrev ==
    [calls |-> <<>>, out |-> <<>>, found |-> <<>>, exitcode |-> <<>>,
     iodelay_clk_freq |-> 0, args |-> ScanOnlyArgs]

\* --------------------------------------------------------------- the program

Init ==
    /\ pc = "main"
    /\ \E a \in ScanArgs : fmin = a[1] /\ fmax = a[2] /\ fstep = a[3]
    /\ iodelay_clk_freq \in IoDelayArgs
    /\ n = 0
    /\ i = 0
    /\ found = <<>>
    /\ out = <<>>
    /\ calls = <<>>
    /\ exitcode = <<>>
    /\ target = "antmicro"
    /\ args = ScanOnlyArgs
    /\ effects = <<>>
    /\ rom_data = <<>>
    /\ rom_base = 0
    /\ burst = DefaultBurst
    /\ w = 0
    /\ run = 1
    /\ prev_run = NoPrev
    /\ opts = NoOpts
    /\ soc = NoSoC
    /\ crg = PowerOn
    /\ edges = 0

\* lines 203-205: the range is built once; fstep = 0 raises ZeroDivisionError
ScanStart ==
    /\ pc = "main"
    /\ args.scan_pll
    /\ IF fstep = 0
       THEN /\ pc' = "raised"
            /\ exitcode' = <<UncaughtExitStatus>>
            /\ UNCHANGED n
       ELSE /\ pc' = "loop"
            /\ n' = NumCandidates(fmin, fmax, fstep)
            /\ UNCHANGED exitcode
    /\ found' = <<>>
    /\ UNCHANGED <<fmin, fmax, fstep, iodelay_clk_freq, i, out, calls>>
    /\ UNCHANGED mainvars
    /\ UNCHANGED twinvars
    /\ UNCHANGED socvars
    /\ UNCHANGED hwvars

\* lines 205-222: one iteration of the sweep, the PLL answering r
Trial(r) ==
    /\ pc = "loop"
    /\ i < n
    /\ LET freq == Candidate(fmin, fstep, i)
           cfg  == CRGConfig(freq, iodelay_clk_freq)
           pre  == IF verbose THEN <<Line("trying", FormatMHz(freq))>> ELSE <<>>
       IN  /\ calls' = Append(calls, [cfg |-> cfg, resp |-> r])
           /\ found' = FoundAfter(found, freq, r)
           /\ IF ~r.raises \/ (Caught(r) /\ ~Reraised(r))
              THEN /\ out' = out \o pre \o <<Progress(r)>>
                   /\ i' = NextIndex(i)
                   /\ UNCHANGED <<pc, exitcode>>
              ELSE /\ pc' = "raised"
                   /\ exitcode' = <<UncaughtExitStatus>>
                   /\ out' = out \o pre
                   /\ UNCHANGED i
    /\ UNCHANGED <<fmin, fmax, fstep, iodelay_clk_freq, n>>
    /\ UNCHANGED mainvars
    /\ UNCHANGED twinvars
    /\ UNCHANGED socvars
    /\ UNCHANGED hwvars

\* lines 223-229: the range is exhausted; the report
Report ==
    /\ pc = "loop"
    /\ ~(i < n)
    /\ out' = out \o <<Line("Found PLL configs for:", 0)>>
                  \o ReportLines(found, 1, <<>>, fstep)
    /\ pc' = "reported"
    /\ UNCHANGED <<fmin, fmax, fstep, iodelay_clk_freq, n, i, found, calls, exitcode>>
    /\ UNCHANGED mainvars
    /\ UNCHANGED twinvars
    /\ UNCHANGED socvars
    /\ UNCHANGED hwvars

\* variant of Exit: sys.exit(0) missing, main() goes on to build the SoC
Exit_FallThrough ==
    /\ pc = "reported"
    /\ pc' = "load"
    /\ effects' = effects \o <<[op |-> "soc", reg |-> "", addr |-> 0, data |-> <<>>],
                               [op |-> "build", reg |-> "", addr |-> 0,
                                data |-> <<IF args.build THEN 1 ELSE 0>>]>>
    /\ UNCHANGED <<fmin, fmax, fstep, iodelay_clk_freq, n, i, found, out, calls, exitcode>>
    /\ UNCHANGED <<target, args, rom_data, rom_base, burst, w>>
    /\ UNCHANGED twinvars
    /\ UNCHANGED socvars
    /\ UNCHANGED hwvars

\* lines 230-231
Exit ==
    /\ pc = "reported"
    /\ pc' = "exited"
    /\ exitcode' = <<ScanExitStatus>>
    /\ UNCHANGED <<fmin, fmax, fstep, iodelay_clk_freq, n, i, found, out, calls>>
    /\ UNCHANGED mainvars
    /\ UNCHANGED twinvars
    /\ UNCHANGED socvars
    /\ UNCHANGED hwvars

Next ==
    \/ ScanStart
    \/ \E r \in Outcomes : Trial(r)
    \/ Report
    \/ Exit

Spec == Init /\ [][Next]_vars

\* the interpreter runs main() on, statement after statement, until it ends
FairSpec == Spec /\ WF_vars(Next)

\* ------------------------------------------- main() past the --scan-pll branch

Targets == {"antmicro", "lpddr4", "arty"}

\* the BIOS images explored: word j of an image is j
RomLens == {0, 3, DefaultBurst, DefaultBurst + 1, 2 * DefaultBurst + 10}
RomImages == {[j \in 1..len |-> j] : len \in RomLens}

\* the ROM base addresses explored
RomBases == {0, 4096}

\* the command lines explored for the whole of main(): every combination of
\* the flags a target has (--scan-pll only in antmicro, --flash and
\* --rw-bios-mem not in arty)
MainArgs(t) ==
    {Args(sc, b, l, f, lb, rw, 50 * MHz) :
        sc \in (IF t = "antmicro" THEN BOOLEAN ELSE {FALSE}),
        b \in BOOLEAN, l \in BOOLEAN,
        f \in (IF t = "arty" THEN {FALSE} ELSE BOOLEAN),
        lb \in BOOLEAN,
        rw \in (IF t = "arty" THEN {FALSE} ELSE BOOLEAN)}

\* the sweeps explored together with the flags
MainScanArgs == {a \in ScanArgs : a[1] = FreqBase /\ a[3] \in {0, FreqUnit}}

\* something done outside the process: constructing the SoC, running the
\* builder, programming the board, an operation on the remote bus
Eff(op, reg, addr, data) == [op |-> op, reg |-> reg, addr |-> addr, data |-> data]

\* data[lo:hi] for 0 <= lo <= hi
Slice(data, lo, hi) ==
    SubSeq(data, lo + 1, IF hi < Len(data) THEN hi ELSE Len(data))

\* variant of ChunkAddr: the word index used as a byte address
ChunkAddr_ByteIndex(base, k) == base + k

\* base + 4 * i
ChunkAddr(base, k) == base + 4 * k

\* the if-statement that follows stage st in the main() of target t
After(t, st) ==
    CASE t = "antmicro" ->
            (CASE st = "load" -> "flash"
               [] st = "flash" -> "load_bios"
               [] OTHER -> "end")
      [] t = "lpddr4" ->
            (CASE st = "load" -> "load_bios"
               [] st = "load_bios" -> "flash"
               [] OTHER -> "end")
      [] OTHER ->
            (CASE st = "load" -> "load_bios"
               [] OTHER -> "end")

\* the register write that stops the CPU before the ROM is rewritten:
\* wb.regs.ctrl_reset_hold.write(1), wb.regs.ctrl_reset.write(0b10)
ResetAssert(t) ==
    IF t = "antmicro"
    THEN Eff("reg", "ctrl_reset_hold", 0, <<1>>)
    ELSE Eff("reg", "ctrl_reset", 0, <<2>>)

\* the register write after the ROM is rewritten:
\* wb.regs.ctrl_reset_hold.write(0), wb.regs.ctrl_reset.write(1),
\* wb.regs.ctrl_reset.write(0)
ResetRelease(t) ==
    CASE t = "antmicro" -> Eff("reg", "ctrl_reset_hold", 0, <<0>>)
      [] t = "lpddr4"   -> Eff("reg", "ctrl_reset", 0, <<1>>)
      [] OTHER          -> Eff("reg", "ctrl_reset", 0, <<0>>)

\* variant of AfterOpen: every target stops the CPU before the ROM writes
AfterOpen_AlwaysHold(t) == "bios_hold"

\* variant of AfterOpen: the ROM is written without stopping the CPU first
AfterOpen_NoHold(t) == "bios_write"

\* the statement that follows wb.open() and get_mem_data(): the register write
\* that stops the CPU (antmicro, arty) or the ROM writes at once (lpddr4)
AfterOpen(t) == IF t = "lpddr4" THEN "bios_write" ELSE "bios_hold"

\* the assertion 'BIOS memory must be writible'
NeedsRwBiosMem(t) == t \in {"antmicro", "lpddr4"}

\* soc.platform.create_programmer(): the Platform of lpddr4_test_board, which
\* the antmicro and lpddr4 targets use, raises NotImplementedError
HasProgrammer(t) == t \notin {"antmicro", "lpddr4"}

\* what the SDRAM section of BaseSoC.__init__ prints: a rule, one dump() per
\* settings object (each one entry here), and a closing rule
SdramDump(t) ==
    CASE t = "antmicro" ->
            <<Line("=" , 80), Line("dump ddrphy.settings", 0),
              Line("dump geom_settings", 0), Line("dump timing_settings", 0),
              Line("", 0), Line("pprint ddrphy.dfi.layout[0]", 0), Line("", 0),
              Line("=", 80)>>
      [] t = "lpddr4" ->
            <<Line("=" , 80), Line("dump ddrphy.settings", 0),
              Line("dump geom_settings", 0), Line("dump timing_settings", 0),
              Line("", 0), Line("=", 80)>>
      [] t = "arty" ->
            <<Line("=" , 80), Line("dump geom_settings", 0),
              Line("dump timing_settings", 0), Line("dump ddrphy.phy.settings", 0),
              Line("OLD | NEW", 0), Line("dump ddrphy.settings", 0),
              Line("", 0), Line("=", 80)>>
      [] OTHER -> <<>>

\* the SoC main() constructs from the default options has the SDRAM:
\* antmicro and arty add it unless --integrated-main-ram-size is given,
\* lpddr4 only with --with-sdram
DefaultSdram(t) == t \in {"antmicro", "arty"}

\* digilent_arty's main() calls generate_gtkw_savefile(builder, vns, ...)
\* after the build
WritesGtkwSavefile(t) == t = "arty"

InitMain ==
    /\ pc = "main"
    /\ target \in Targets
    /\ args \in MainArgs(target)
    /\ IF args.scan_pll
       THEN \E a \in MainScanArgs : fmin = a[1] /\ fmax = a[2] /\ fstep = a[3]
       ELSE fmin = 0 /\ fmax = 0 /\ fstep = 0
    /\ iodelay_clk_freq = 200 * MHz
    /\ n = 0
    /\ i = 0
    /\ found = <<>>
    /\ out = <<>>
    /\ calls = <<>>
    /\ exitcode = <<>>
    /\ effects = <<>>
    /\ rom_data = <<>>
    /\ rom_base = 0
    /\ burst = DefaultBurst
    /\ w = 0
    /\ run = 1
    /\ prev_run = NoPrev
    /\ opts = NoOpts
    /\ soc = NoSoC
    /\ crg = PowerOn
    /\ edges = 0

\* BaseSoC(...), Builder(...), builder.build(run=args.build) and, in
\* digilent_arty, generate_gtkw_savefile(...)
BuildSoC ==
    /\ pc = "main"
    /\ ~args.scan_pll
    /\ effects' = effects \o <<Eff("soc", "", 0, <<>>),
                               Eff("build", "", 0, <<IF args.build THEN 1 ELSE 0>>)>>
                          \o (IF WritesGtkwSavefile(target)
                              THEN <<Eff("gtkw_savefile", "", 0, <<>>)>> ELSE <<>>)
    /\ out' = out \o (IF DefaultSdram(target) THEN SdramDump(target) ELSE <<>>)
    /\ pc' = "load"
    /\ UNCHANGED <<fmin, fmax, fstep, iodelay_clk_freq, n, i, found, calls, exitcode>>
    /\ UNCHANGED <<target, args, rom_data, rom_base, burst, w>>
    /\ UNCHANGED twinvars
    /\ UNCHANGED socvars
    /\ UNCHANGED hwvars

\* if args.load: prog = soc.platform.create_programmer(); prog.load_bitstream(...)
Load ==
    /\ pc = "load"
    /\ IF ~args.load
       THEN pc' = After(target, "load") /\ UNCHANGED <<effects, exitcode>>
       ELSE IF HasProgrammer(target)
       THEN /\ effects' = Append(effects, Eff("load_bitstream", "", 0, <<>>))
            /\ pc' = After(target, "load")
            /\ UNCHANGED exitcode
       ELSE /\ pc' = "raised"
            /\ exitcode' = <<UncaughtExitStatus>>
            /\ UNCHANGED effects
    /\ UNCHANGED <<fmin, fmax, fstep, iodelay_clk_freq, n, i, found, out, calls>>
    /\ UNCHANGED <<target, args, rom_data, rom_base, burst, w>>
    /\ UNCHANGED twinvars
    /\ UNCHANGED socvars
    /\ UNCHANGED hwvars

\* if args.flash: prog = soc.platform.create_programmer(); prog.flash(0, ...)
Flash ==
    /\ pc = "flash"
    /\ IF ~args.flash
       THEN pc' = After(target, "flash") /\ UNCHANGED <<effects, exitcode>>
       ELSE IF HasProgrammer(target)
       THEN /\ effects' = Append(effects, Eff("flash", "", 0, <<>>))
            /\ pc' = After(target, "flash")
            /\ UNCHANGED exitcode
       ELSE /\ pc' = "raised"
            /\ exitcode' = <<UncaughtExitStatus>>
            /\ UNCHANGED effects
    /\ UNCHANGED <<fmin, fmax, fstep, iodelay_clk_freq, n, i, found, out, calls>>
    /\ UNCHANGED <<target, args, rom_data, rom_base, burst, w>>
    /\ UNCHANGED twinvars
    /\ UNCHANGED socvars
    /\ UNCHANGED hwvars

\* if args.load_bios: the assertion, wb = RemoteClient(); wb.open(), and
\* rom_data = get_mem_data(bios_bin, "little")
BiosOpen ==
    /\ pc = "load_bios"
    /\ IF ~args.load_bios
       THEN /\ pc' = After(target, "load_bios")
            /\ UNCHANGED <<effects, rom_data, rom_base, w, out, exitcode>>
       ELSE IF NeedsRwBiosMem(target) /\ ~args.rw_bios_mem
       THEN /\ pc' = "raised"
            /\ exitcode' = <<UncaughtExitStatus>>
            /\ UNCHANGED <<effects, rom_data, rom_base, w, out>>
       ELSE /\ effects' = Append(effects, Eff("open", "", 0, <<>>))
            /\ rom_data' \in RomImages
            /\ rom_base' \in RomBases
            /\ w' = 0
            /\ out' = IF target = "antmicro"
                      THEN out
                      ELSE Append(out, Line("Loading BIOS", 0))
            /\ pc' = AfterOpen(target)
            /\ UNCHANGED exitcode
    /\ UNCHANGED <<fmin, fmax, fstep, iodelay_clk_freq, n, i, found, calls>>
    /\ UNCHANGED <<target, args, burst>>
    /\ UNCHANGED twinvars
    /\ UNCHANGED socvars
    /\ UNCHANGED hwvars

\* antmicro: print('Reseting CPU'); wb.regs.ctrl_reset_hold.write(1); print(Loading ...)
\* arty: print('Stopping CPU'); wb.regs.ctrl_reset.write(0b10)
BiosHold ==
    /\ pc = "bios_hold"
    /\ effects' = Append(effects, ResetAssert(target))
    /\ out' = IF target = "antmicro"
              THEN out \o <<Line("Reseting CPU", 0), Line("Loading BIOS", 0)>>
              ELSE Append(out, Line("Stopping CPU", 0))
    /\ pc' = "bios_write"
    /\ UNCHANGED <<fmin, fmax, fstep, iodelay_clk_freq, n, i, found, calls, exitcode>>
    /\ UNCHANGED <<target, args, rom_data, rom_base, burst, w>>
    /\ UNCHANGED twinvars
    /\ UNCHANGED socvars
    /\ UNCHANGED hwvars

\* memwrite, one turn of its loop:
\* for i in range(0, len(data), burst): wb.write(base + 4 * i, data[i:i + burst])
BiosWrite ==
    /\ pc = "bios_write"
    /\ target # "arty"
    /\ w < Len(rom_data)
    /\ effects' = Append(effects,
                         Eff("write", "", ChunkAddr(rom_base, w),
                             Slice(rom_data, w, w + burst)))
    /\ w' = w + burst
    /\ UNCHANGED <<pc, fmin, fmax, fstep, iodelay_clk_freq, n, i, found, out, calls, exitcode>>
    /\ UNCHANGED <<target, args, rom_data, rom_base, burst>>
    /\ UNCHANGED twinvars
    /\ UNCHANGED socvars
    /\ UNCHANGED hwvars

\* arty, one turn of the loop:
\* for i, word in enumerate(rom_data): wb.write(wb.mems.rom.base + 4*i, word)
BiosWriteWord ==
    /\ pc = "bios_write"
    /\ target = "arty"
    /\ w < Len(rom_data)
    /\ effects' = Append(effects,
                         Eff("write", "", rom_base + 4 * w, <<rom_data[w + 1]>>))
    /\ w' = w + 1
    /\ UNCHANGED <<pc, fmin, fmax, fstep, iodelay_clk_freq, n, i, found, out, calls, exitcode>>
    /\ UNCHANGED <<target, args, rom_data, rom_base, burst>>
    /\ UNCHANGED twinvars
    /\ UNCHANGED socvars
    /\ UNCHANGED hwvars

\* the loop is exhausted; wb.read(wb.mems.rom.base)
BiosRead ==
    /\ pc = "bios_write"
    /\ ~(w < Len(rom_data))
    /\ effects' = Append(effects, Eff("read", "", rom_base, <<>>))
    /\ pc' = "bios_reboot"
    /\ UNCHANGED <<fmin, fmax, fstep, iodelay_clk_freq, n, i, found, out, calls, exitcode>>
    /\ UNCHANGED <<target, args, rom_data, rom_base, burst, w>>
    /\ UNCHANGED twinvars
    /\ UNCHANGED socvars
    /\ UNCHANGED hwvars

\* print('Rebooting CPU'); the register write that lets the CPU run
BiosReboot ==
    /\ pc = "bios_reboot"
    /\ out' = Append(out, Line("Rebooting CPU", 0))
    /\ effects' = Append(effects, ResetRelease(target))
    /\ pc' = "bios_close"
    /\ UNCHANGED <<fmin, fmax, fstep, iodelay_clk_freq, n, i, found, calls, exitcode>>
    /\ UNCHANGED <<target, args, rom_data, rom_base, burst, w>>
    /\ UNCHANGED twinvars
    /\ UNCHANGED socvars
    /\ UNCHANGED hwvars

\* wb.close()
BiosClose ==
    /\ pc = "bios_close"
    /\ effects' = Append(effects, Eff("close", "", 0, <<>>))
    /\ pc' = After(target, "load_bios")
    /\ UNCHANGED <<fmin, fmax, fstep, iodelay_clk_freq, n, i, found, out, calls, exitcode>>
    /\ UNCHANGED <<target, args, rom_data, rom_base, burst, w>>
    /\ UNCHANGED twinvars
    /\ UNCHANGED socvars
    /\ UNCHANGED hwvars

\* main() returns: the interpreter ends with status 0
MainReturn ==
    /\ pc = "end"
    /\ pc' = "exited"
    /\ exitcode' = <<0>>
    /\ UNCHANGED <<fmin, fmax, fstep, iodelay_clk_freq, n, i, found, out, calls>>
    /\ UNCHANGED mainvars
    /\ UNCHANGED twinvars
    /\ UNCHANGED socvars
    /\ UNCHANGED hwvars

NextMain ==
    \/ ScanStart
    \/ \E r \in Outcomes : Trial(r)
    \/ Report
    \/ Exit
    \/ BuildSoC
    \/ Load
    \/ Flash
    \/ BiosOpen
    \/ BiosHold
    \/ BiosWrite
    \/ BiosWriteWord
    \/ BiosRead
    \/ BiosReboot
    \/ BiosClose
    \/ MainReturn

SpecMain == InitMain /\ [][NextMain]_vars

\* ------------------------------------------------ memwrite(wb, data, base, burst)

MaxBurst == 4
MaxLen == 6

\* the data explored: word j of an image is j
MemImages == {[j \in 1..len |-> j] : len \in 0..MaxLen}

\* the call memwrite(wb, data, base, burst) of the two targets that define it,
\* for every burst > 0 up to MaxBurst
InitMemwrite ==
    /\ pc = "bios_write"
    /\ target \in {"antmicro", "lpddr4"}
    /\ args = Args(FALSE, FALSE, FALSE, FALSE, TRUE, TRUE, 50 * MHz)
    /\ fmin = 0 /\ fmax = 0 /\ fstep = 0
    /\ iodelay_clk_freq = 200 * MHz
    /\ n = 0
    /\ i = 0
    /\ found = <<>>
    /\ out = <<>>
    /\ calls = <<>>
    /\ exitcode = <<>>
    /\ effects = <<>>
    /\ rom_data \in MemImages
    /\ rom_base \in RomBases
    /\ burst \in 1..MaxBurst
    /\ w = 0
    /\ run = 1
    /\ prev_run = NoPrev
    /\ opts = NoOpts
    /\ soc = NoSoC
    /\ crg = PowerOn
    /\ edges = 0

NextMemwrite ==
    \/ BiosWrite
    \/ BiosRead

SpecMemwrite == InitMemwrite /\ [][NextMemwrite]_vars

\* ------------------------------------------------ the construction of the SoC

SocTargets == {"lpddr4", "antmicro", "arty", "forest_kitten"}

\* the system clock frequencies explored for forest_kitten_33
KittenFreqs == {100 * MHz, 225 * MHz - 1, 225 * MHz, 300 * MHz,
                450 * MHz, 450 * MHz + 1, 500 * MHz}

\* the values of --integrated-main-ram-size explored
UserRamSizes == {0, 32768}

\* the options explored for each target: the flags the target's parser has
SocOpts(t) ==
    CASE t = "lpddr4" ->
            {[with_sdram |-> sd, with_ethernet |-> e, with_etherbone |-> eb,
              eth_dynamic_ip |-> FALSE, with_video |-> v,
              integrated_main_ram_size |-> sz, sys_clk_freq |-> 35 * MHz] :
                sd \in BOOLEAN, e \in BOOLEAN, eb \in BOOLEAN, v \in BOOLEAN,
                sz \in UserRamSizes}
      [] t \in {"antmicro", "arty"} ->
            {[with_sdram |-> FALSE, with_ethernet |-> e, with_etherbone |-> eb,
              eth_dynamic_ip |-> dyn, with_video |-> FALSE,
              integrated_main_ram_size |-> sz, sys_clk_freq |-> 50 * MHz] :
                e \in BOOLEAN, eb \in BOOLEAN, dyn \in BOOLEAN, sz \in UserRamSizes}
      [] OTHER ->
            {[with_sdram |-> FALSE, with_ethernet |-> FALSE, with_etherbone |-> FALSE,
              eth_dynamic_ip |-> FALSE, with_video |-> FALSE,
              integrated_main_ram_size |-> 0, sys_clk_freq |-> f] : f \in KittenFreqs}

\* variant of ArgparseAccepts: the two options are not in an exclusive group
ArgparseAccepts_NoGroup(t, o) == TRUE

\* ethopts = add_mutually_exclusive_group() with --with-ethernet and
\* --with-etherbone: parse_args() rejects a command line that has both
ArgparseAccepts(t, o) ==
    ~(t \in {"antmicro", "arty"} /\ o.with_ethernet /\ o.with_etherbone)

\* the exit status of parser.error()
ArgparseErrorStatus == 2

\* assert not (args.with_etherbone and args.eth_dynamic_ip)
EthOptsAssert(t, o) ==
    t \in {"antmicro", "arty"} => ~(o.with_etherbone /\ o.eth_dynamic_ip)

\* variant of MainRamSize: the user's value is always kept
MainRamSize_UserValue(t, o) == o.integrated_main_ram_size

\* soc_kwargs["integrated_main_ram_size"] as main() passes it on
MainRamSize(t, o) ==
    IF t = "lpddr4" /\ ~o.with_sdram /\ (o.with_ethernet \/ o.with_etherbone)
    THEN 65536
    ELSE o.integrated_main_ram_size

\* soc_kwargs['integrated_rom_size'] = 0x10000; 0 where main() leaves it alone
RomSize(t) == IF t \in {"lpddr4", "antmicro"} THEN 65536 ELSE 0

\* variant of CrgWithEthernet: Etherbone alone does not count
CrgWithEthernet_EthernetOnly(o) == o.with_ethernet

\* the with_ethernet argument of lpddr4_test_board's _CRG
CrgWithEthernet(o) == o.with_ethernet \/ o.with_etherbone

\* the clock outputs the target's _CRG creates on its PLL, as <<domain, freq>>
CrgClkouts(t, o) ==
    LET f == o.sys_clk_freq
    IN  CASE t = "lpddr4" ->
                {<<"sys", f>>}
                \cup (IF o.with_sdram THEN {<<"sys2x", 2 * f>>, <<"sys8x", 8 * f>>} ELSE {})
                \cup (IF o.with_sdram \/ CrgWithEthernet(o)
                      THEN {<<"idelay", 200 * MHz>>} ELSE {})
          [] t = "antmicro" ->
                LET c == CRGConfig(f, 200 * MHz)
                IN  {<<"sys", c.sys>>, <<"sys2x", c.sys2x>>, <<"sys8x", c.sys8x>>,
                     <<"idelay", c.idelay>>}
          [] t = "arty" ->
                {<<"sys", f>>, <<"sys2x", 2 * f>>, <<"sys8x", 8 * f>>,
                 <<"sys8x_dqs", 8 * f>>, <<"idelay", 200 * MHz>>, <<"eth", 25 * MHz>>}
          [] OTHER ->
                {<<"sys", f>>, <<"hbm_ref", 100 * MHz>>, <<"apb", 100 * MHz>>}

\* the clock domains of the target's _CRG: one per clock output
CrgDomains(t, o) == {c[1] : c \in CrgClkouts(t, o)}

\* the submodules of the target's _CRG
CrgSubmodules(t, o) ==
    {"pll"} \cup (IF "idelay" \in CrgDomains(t, o) THEN {"idelayctrl"} ELSE {})

\* variant of CrgAccepts: the two bounds excluded
CrgAccepts_Exclusive(t, o) ==
    t = "forest_kitten" => (225 * MHz < o.sys_clk_freq /\ o.sys_clk_freq < 450 * MHz)

\* forest_kitten_33's _CRG: assert 225e6 <= sys_clk_freq <= 450e6
CrgAccepts(t, o) ==
    t = "forest_kitten" => (225 * MHz <= o.sys_clk_freq /\ o.sys_clk_freq <= 450 * MHz)

\* the SDRAM PHY and controller are added: if with_sdram (lpddr4),
\* if not self.integrated_main_ram_size (antmicro, arty)
HasSdram(t, o, sc) ==
    CASE t = "lpddr4" -> o.with_sdram
      [] t \in {"antmicro", "arty"} -> sc.kwargs.integrated_main_ram_size = 0
      [] OTHER -> FALSE

\* lpddr4_test_board's BaseSoC: assert not (with_ethernet and with_etherbone)
EthAssert(t, o) == t = "lpddr4" => ~(o.with_ethernet /\ o.with_etherbone)

\* what 'if with_ethernet or with_etherbone:' adds
EthSubmodules(t, o) ==
    IF t # "forest_kitten" /\ (o.with_ethernet \/ o.with_etherbone)
    THEN {"ethphy"} \cup (IF o.with_ethernet THEN {"ethmac"} ELSE {})
                   \cup (IF o.with_etherbone THEN {"etherbone"} ELSE {})
    ELSE {}

InitSoC ==
    /\ pc = "parse_args"
    /\ target \in SocTargets
    /\ args = Args(FALSE, TRUE, FALSE, FALSE, FALSE, FALSE, 50 * MHz)
    /\ fmin = 0 /\ fmax = 0 /\ fstep = 0
    /\ iodelay_clk_freq = 200 * MHz
    /\ n = 0
    /\ i = 0
    /\ found = <<>>
    /\ out = <<>>
    /\ calls = <<>>
    /\ exitcode = <<>>
    /\ effects = <<>>
    /\ rom_data = <<>>
    /\ rom_base = 0
    /\ burst = DefaultBurst
    /\ w = 0
    /\ run = 1
    /\ prev_run = NoPrev
    /\ opts \in SocOpts(target)
    /\ soc = NoSoC
    /\ crg = PowerOn
    /\ edges = 0

\* args = parser.parse_args()
ParseArgs ==
    /\ pc = "parse_args"
    /\ IF ArgparseAccepts(target, opts)
       THEN pc' = "checks" /\ UNCHANGED exitcode
       ELSE pc' = "exited" /\ exitcode' = <<ArgparseErrorStatus>>
    /\ UNCHANGED <<fmin, fmax, fstep, iodelay_clk_freq, n, i, found, out, calls>>
    /\ UNCHANGED mainvars
    /\ UNCHANGED twinvars
    /\ UNCHANGED socvars
    /\ UNCHANGED hwvars

\* the assertion on the Ethernet options and the soc_kwargs main() prepares
MakeKwargs ==
    /\ pc = "checks"
    /\ IF EthOptsAssert(target, opts)
       THEN /\ soc' = [soc EXCEPT !.kwargs =
                          [integrated_rom_size |-> RomSize(target),
                           integrated_main_ram_size |-> MainRamSize(target, opts)]]
            /\ pc' = "soc_core"
            /\ UNCHANGED exitcode
       ELSE /\ pc' = "raised"
            /\ exitcode' = <<UncaughtExitStatus>>
            /\ UNCHANGED soc
    /\ UNCHANGED <<fmin, fmax, fstep, iodelay_clk_freq, n, i, found, out, calls>>
    /\ UNCHANGED mainvars
    /\ UNCHANGED twinvars
    /\ UNCHANGED opts
    /\ UNCHANGED hwvars

\* SoCCore.__init__(self, platform, sys_clk_freq, ..., **kwargs): an
\* integrated main RAM is created when its size is not zero
SoCCoreInit ==
    /\ pc = "soc_core"
    /\ soc' = [soc EXCEPT !.submodules =
                  @ \cup (IF soc.kwargs.integrated_main_ram_size > 0
                          THEN {"integrated_main_ram"} ELSE {})]
    /\ pc' = "soc_crg"
    /\ UNCHANGED <<fmin, fmax, fstep, iodelay_clk_freq, n, i, found, out, calls, exitcode>>
    /\ UNCHANGED mainvars
    /\ UNCHANGED twinvars
    /\ UNCHANGED opts
    /\ UNCHANGED hwvars

\* self.submodules.crg = _CRG(platform, sys_clk_freq, ...)
CRGInit ==
    /\ pc = "soc_crg"
    /\ IF CrgAccepts(target, opts)
       THEN /\ soc' = [soc EXCEPT
                          !.clock_domains = @ \cup CrgDomains(target, opts),
                          !.clkouts = @ \cup CrgClkouts(target, opts),
                          !.submodules = @ \cup CrgSubmodules(target, opts)]
            /\ pc' = "soc_sdram"
            /\ UNCHANGED exitcode
       ELSE /\ pc' = "raised"
            /\ exitcode' = <<UncaughtExitStatus>>
            /\ UNCHANGED soc
    /\ UNCHANGED <<fmin, fmax, fstep, iodelay_clk_freq, n, i, found, out, calls>>
    /\ UNCHANGED mainvars
    /\ UNCHANGED twinvars
    /\ UNCHANGED opts
    /\ UNCHANGED hwvars

\* the SDRAM section of BaseSoC.__init__, with the debug dump it prints
AddSdram ==
    /\ pc = "soc_sdram"
    /\ soc' = [soc EXCEPT !.submodules =
                  @ \cup (IF HasSdram(target, opts, soc)
                          THEN {"ddrphy", "sdram"} ELSE {})]
    /\ out' = out \o (IF HasSdram(target, opts, soc) THEN SdramDump(target) ELSE <<>>)
    /\ pc' = "soc_eth"
    /\ UNCHANGED <<fmin, fmax, fstep, iodelay_clk_freq, n, i, found, calls, exitcode>>
    /\ UNCHANGED mainvars
    /\ UNCHANGED twinvars
    /\ UNCHANGED opts
    /\ UNCHANGED hwvars

\* the Ethernet / Etherbone section of BaseSoC.__init__
AddEthernet ==
    /\ pc = "soc_eth"
    /\ IF EthAssert(target, opts)
       THEN /\ soc' = [soc EXCEPT !.submodules = @ \cup EthSubmodules(target, opts)]
            /\ pc' = "soc_rest"
            /\ UNCHANGED exitcode
       ELSE /\ pc' = "raised"
            /\ exitcode' = <<UncaughtExitStatus>>
            /\ UNCHANGED soc
    /\ UNCHANGED <<fmin, fmax, fstep, iodelay_clk_freq, n, i, found, out, calls>>
    /\ UNCHANGED mainvars
    /\ UNCHANGED twinvars
    /\ UNCHANGED opts
    /\ UNCHANGED hwvars

\* the rest of BaseSoC.__init__: the video output of lpddr4_test_board
\* requests the resource hdmi_out, which the platform does not define, so
\* with_video always fails; the LEDs; forest_kitten_33's HBM as main RAM
FinishSoC ==
    /\ pc = "soc_rest"
    /\ IF target = "lpddr4" /\ opts.with_video
       THEN /\ pc' = "raised"
            /\ exitcode' = <<UncaughtExitStatus>>
            /\ UNCHANGED soc
       ELSE /\ soc' = [soc EXCEPT !.submodules =
                          @ \cup {"leds"}
                            \cup (IF target = "forest_kitten" THEN {"hbm"} ELSE {})]
            /\ pc' = "soc_built"
            /\ UNCHANGED exitcode
    /\ UNCHANGED <<fmin, fmax, fstep, iodelay_clk_freq, n, i, found, out, calls>>
    /\ UNCHANGED mainvars
    /\ UNCHANGED twinvars
    /\ UNCHANGED opts
    /\ UNCHANGED hwvars

\* builder = Builder(soc, ...); builder.build(..., run=args.build); in
\* digilent_arty then generate_gtkw_savefile(builder, vns, ...), which reads
\* soc.sdram and fails without the SDRAM
RunBuilder ==
    /\ pc = "soc_built"
    /\ IF WritesGtkwSavefile(target) /\ "sdram" \notin soc.submodules
       THEN /\ effects' = effects \o <<Eff("soc", "", 0, <<>>),
                                       Eff("build", "", 0, <<IF args.build THEN 1 ELSE 0>>)>>
            /\ pc' = "raised"
            /\ exitcode' = <<UncaughtExitStatus>>
       ELSE /\ effects' = effects \o <<Eff("soc", "", 0, <<>>),
                                       Eff("build", "", 0, <<IF args.build THEN 1 ELSE 0>>)>>
                                  \o (IF WritesGtkwSavefile(target)
                                      THEN <<Eff("gtkw_savefile", "", 0, <<>>)>> ELSE <<>>)
            /\ pc' = "load"
            /\ UNCHANGED exitcode
    /\ UNCHANGED <<fmin, fmax, fstep, iodelay_clk_freq, n, i, found, out, calls>>
    /\ UNCHANGED <<target, args, rom_data, rom_base, burst, w>>
    /\ UNCHANGED twinvars
    /\ UNCHANGED socvars
    /\ UNCHANGED hwvars

NextSoC ==
    \/ ParseArgs
    \/ MakeKwargs
    \/ SoCCoreInit
    \/ CRGInit
    \/ AddSdram
    \/ AddEthernet
    \/ FinishSoC
    \/ RunBuilder

SpecSoC == InitSoC /\ [][NextSoC]_vars

\* ------------------------------------ the clock generator of ecp5_dc_scm (_CRG)

\* clk100 edges explored after the power-on count has run out
MaxExtraEdges == 3

\* self.comb += por_done.eq(por_count == 0)
por_done(x) == x.por_count = 0

\* variant of PorNext: the counter decrements on every edge
PorNext_Unguarded(x) == (x.por_count - 1) % 2^PorWidth

\* self.sync.por += If(~por_done, por_count.eq(por_count - 1)), in 16 bits
PorNext(x) ==
    IF ~por_done(x) THEN (x.por_count - 1) % 2^PorWidth ELSE x.por_count

\* variant of pll_reset: the power-on reset does not reach the PLL
pll_reset_RstOnly(x) == x.rst

\* self.comb += pll.reset.eq(~por_done | self.rst)
pll_reset(x) == ~por_done(x) \/ x.rst

\* variant of AsyncReset: the DDR PHY init reset does not reach the domains
AsyncReset_LockedOnly(x) == ~x.locked

\* the input of both AsyncResetSynchronizers: ~pll.locked | self.reset
AsyncReset(x) == ~x.locked \/ x.reset

\* the asynchronous preset of the synchronizers' flip-flops acts at once
Settle(x) ==
    IF AsyncReset(x) THEN [x EXCEPT !.cd_sys = Preset, !.cd_sys2x = Preset] ELSE x

\* a clock edge of the domain at the two flip-flops of its synchronizer:
\* the first takes 0, the second (the domain's rst) takes the first
SyncEdge(ff) == [rst1 |-> FALSE, rst |-> ff.rst1]

InitCRG ==
    /\ pc = "gateware"
    /\ target = "ecp5_dc_scm"
    /\ args = ScanOnlyArgs
    /\ fmin = 0 /\ fmax = 0 /\ fstep = 0
    /\ iodelay_clk_freq = 200 * MHz
    /\ n = 0
    /\ i = 0
    /\ found = <<>>
    /\ out = <<>>
    /\ calls = <<>>
    /\ exitcode = <<>>
    /\ effects = <<>>
    /\ rom_data = <<>>
    /\ rom_base = 0
    /\ burst = DefaultBurst
    /\ w = 0
    /\ run = 1
    /\ prev_run = NoPrev
    /\ opts = NoOpts
    /\ soc = NoSoC
    /\ \E r \in BOOLEAN, rs \in BOOLEAN, l \in BOOLEAN :
          crg = Settle([PowerOn EXCEPT !.rst = r, !.reset = rs, !.locked = l])
    /\ edges = 0

\* a rising edge of clk100, the clock of the por domain
Clk100Edge ==
    /\ pc = "gateware"
    /\ edges < PorReset + MaxExtraEdges
    /\ crg' = [crg EXCEPT !.por_count = PorNext(crg)]
    /\ edges' = edges + 1
    /\ UNCHANGED <<pc, fmin, fmax, fstep, iodelay_clk_freq, n, i, found, out, calls, exitcode>>
    /\ UNCHANGED mainvars
    /\ UNCHANGED twinvars
    /\ UNCHANGED socvars

\* a signal driven from outside the _CRG changes: self.rst, the DDR PHY's
\* init.reset (BaseSoC, line 106) or the PLL's locked
DriveInputs ==
    /\ pc = "gateware"
    /\ \E sig \in {"rst", "reset", "locked"} :
          crg' = Settle([crg EXCEPT ![sig] = ~crg[sig]])
    /\ UNCHANGED <<pc, fmin, fmax, fstep, iodelay_clk_freq, n, i, found, out, calls, exitcode>>
    /\ UNCHANGED mainvars
    /\ UNCHANGED twinvars
    /\ UNCHANGED socvars
    /\ UNCHANGED edges

\* a rising edge of the sys2x clock (ECLKSYNCB passes it unless stop is high)
Sys2xClkEdge ==
    /\ pc = "gateware"
    /\ crg' = Settle([crg EXCEPT !.cd_sys2x = SyncEdge(crg.cd_sys2x)])
    /\ UNCHANGED <<pc, fmin, fmax, fstep, iodelay_clk_freq, n, i, found, out, calls, exitcode>>
    /\ UNCHANGED mainvars
    /\ UNCHANGED twinvars
    /\ UNCHANGED socvars
    /\ UNCHANGED edges

\* a rising edge of the sys clock, which CLKDIVF derives from sys2x unless its
\* RST (self.reset) is high
SysClkEdge ==
    /\ pc = "gateware"
    /\ ~crg.reset
    /\ crg' = Settle([crg EXCEPT !.cd_sys = SyncEdge(crg.cd_sys)])
    /\ UNCHANGED <<pc, fmin, fmax, fstep, iodelay_clk_freq, n, i, found, out, calls, exitcode>>
    /\ UNCHANGED mainvars
    /\ UNCHANGED twinvars
    /\ UNCHANGED socvars
    /\ UNCHANGED edges

NextCRG ==
    \/ Clk100Edge
    \/ DriveInputs
    \/ Sys2xClkEdge
    \/ SysClkEdge

SpecCRG == InitCRG /\ [][NextCRG]_vars

\* --------------------------------------------- the same sweep run a second time

\* the sweeps explored twice
TwinScanArgs == {a \in ScanArgs : a[1] = FreqBase /\ a[3] = FreqUnit}

\* --sys-clk-freq, default 50e6
SysClkArgs == {50 * MHz, 100 * MHz}

\* --scan-pll with the three numbers, --iodelay-clk-freq and --sys-clk-freq
TwinArgs == {Args(TRUE, FALSE, FALSE, FALSE, FALSE, FALSE, f) : f \in SysClkArgs}

InitTwin ==
    /\ pc = "main"
    /\ \E a \in TwinScanArgs : fmin = a[1] /\ fmax = a[2] /\ fstep = a[3]
    /\ iodelay_clk_freq \in IoDelayArgs
    /\ n = 0
    /\ i = 0
    /\ found = <<>>
    /\ out = <<>>
    /\ calls = <<>>
    /\ exitcode = <<>>
    /\ target = "antmicro"
    /\ args \in TwinArgs
    /\ effects = <<>>
    /\ rom_data = <<>>
    /\ rom_base = 0
    /\ burst = DefaultBurst
    /\ w = 0
    /\ run = 1
    /\ prev_run = NoPrev
    /\ opts = NoOpts
    /\ soc = NoSoC
    /\ crg = PowerOn
    /\ edges = 0

\* the process has ended and the command is started again with the same three
\* numbers: main() runs from its start, nothing of the first run is left in
\* the program
Rerun ==
    /\ run = 1
    /\ pc \in {"exited", "raised"}
    /\ run' = 2
    /\ prev_run' = [calls |-> calls, out |-> out, found |-> found,
                    exitcode |-> exitcode, iodelay_clk_freq |-> iodelay_clk_freq,
                    args |-> args]
    /\ pc' = "main"
    /\ args' \in TwinArgs
    /\ iodelay_clk_freq' \in IoDelayArgs
    /\ n' = 0
    /\ i' = 0
    /\ found' = <<>>
    /\ out' = <<>>
    /\ calls' = <<>>
    /\ exitcode' = <<>>
    /\ UNCHANGED <<fmin, fmax, fstep, target, effects, rom_data, rom_base, burst, w>>
    /\ UNCHANGED socvars
    /\ UNCHANGED hwvars

NextTwin ==
    \/ ScanStart
    \/ \E r \in Outcomes : Trial(r)
    \/ Report
    \/ Exit
    \/ Rerun

SpecTwin == InitTwin /\ [][NextTwin]_vars

TypeOK ==
    /\ pc \in {"main", "loop", "reported", "exited", "raised",
              "load", "flash", "load_bios", "bios_hold", "bios_write",
              "bios_read", "bios_reboot", "bios_close", "end", "gateware",
              "parse_args", "checks", "soc_core", "soc_crg", "soc_sdram",
              "soc_eth", "soc_rest", "soc_built"}
    /\ exitcode \in {<<>>, <<0>>, <<1>>, <<2>>}
    /\ i \in Nat
    /\ Len(out) >= Len(calls) - 1

\* ------------------------------------------------- reading the run's history

\* the system clock of the k-th configuration submitted, and the PLL's answer
Attempted(k) == calls[k].cfg.sys
Answer(k)    == calls[k].resp

\* the "No PLL config found" condition, and any other validation error
IsNoPll(r)      == r.raises /\ r.type = "ValueError" /\ r.nopll
IsOtherError(r) == r.raises /\ ~IsNoPll(r)

\* the sweep went through its whole range and printed the report
Completed == pc \in {"reported", "exited"}

InSeq(x, sq) == \E j \in 1..Len(sq) : sq[j] = x

\* the report: what is printed after the header
HeaderAt(k) == out[k].kind = "Found PLL configs for:"
HeaderPrinted == \E k \in 1..Len(out) : HeaderAt(k)

\* ---------------------------------------------------------------- the claims

\* C1: a candidate whose validation raises "No PLL config found" is recorded
\* as a failure of that candidate only: it is marked X and is not in found,
\* the scan has not aborted and has moved on to the next candidate, and a
\* scan that prints its report has attempted every candidate of the range.
C1_NoPllIsPerCandidateFailure ==
    \A k \in 1..Len(calls) :
        IsNoPll(Answer(k)) =>
            /\ ~InSeq(Attempted(k), found)
            /\ k <= Len(out) /\ out[k].kind = "X"
            /\ k = Len(calls) => (pc # "raised" /\ exitcode # <<1>> /\ i = k)
            /\ Completed => Len(calls) = n

\* C1 witness: the scan ended after a candidate failed with "No PLL config
\* found" and a later candidate succeeded and is in found.
C1_Witness ==
    /\ pc = "exited"
    /\ \E j, k \in 1..Len(calls) :
          /\ j < k
          /\ IsNoPll(Answer(j))
          /\ ~Answer(k).raises
          /\ InSeq(Attempted(k), found)

\* C2: any validation error other than "No PLL config found" is propagated
\* at once: it is the last configuration submitted, the report header is not
\* printed, and the process ends with a non-zero exit code.
C2_OtherErrorAbortsScan ==
    \A k \in 1..Len(calls) :
        IsOtherError(Answer(k)) =>
            /\ k = Len(calls)
            /\ pc = "raised"
            /\ ~HeaderPrinted
            /\ exitcode # <<>> /\ exitcode # <<0>>

\* C2 witness: a ValueError with another message stopped the scan with
\* candidates of the range still unattempted, after an earlier success.
C2_Witness ==
    /\ pc = "raised"
    /\ Len(calls) >= 2
    /\ Len(calls) < n
    /\ Answer(Len(calls)) = OtherValueError
    /\ ~Answer(1).raises

\* C3: when the sweep completes, found holds exactly the candidates whose
\* validation returned without error: each of them, none that raised
\* "No PLL config found", and nothing that was not attempted.
C3_FoundIsExactlyTheValidated ==
    Completed =>
        /\ \A k \in 1..Len(calls) :
              /\ ~Answer(k).raises => InSeq(Attempted(k), found)
              /\ IsNoPll(Answer(k)) => ~InSeq(Attempted(k), found)
        /\ \A j \in 1..Len(found) :
              \E k \in 1..Len(calls) : Attempted(k) = found[j] /\ ~Answer(k).raises
        /\ Len(found) = Cardinality({k \in 1..Len(calls) : ~Answer(k).raises})

\* C3 witness: a completed sweep with both validated and rejected candidates.
C3_Witness ==
    /\ pc = "reported"
    /\ Len(found) >= 2
    /\ Len(found) < Len(calls)
    /\ \E k \in 1..Len(calls) : IsNoPll(Answer(k))

\* C4: for fmin < fmax and fstep > 0 the number of candidates generated is
\* floor((fmax-fmin)/fstep), i.e. the n with n*fstep <= fmax-fmin < (n+1)*fstep,
\* and a sweep that completes has attempted that many.
C4_CandidateCount ==
    (fmin < fmax /\ fstep > 0 /\ pc # "main") =>
        /\ n * fstep <= fmax - fmin
        /\ fmax - fmin < (n + 1) * fstep
        /\ Completed => Len(calls) = n

\* C4 witness: a completed sweep whose range is no whole number of steps.
C4_Witness ==
    /\ pc = "exited"
    /\ fmin < fmax /\ fstep > 0
    /\ (fmax - fmin) % fstep # 0
    /\ Len(calls) >= 1

\* the report proper: the lines printed after the header
ReportPart ==
    LET h == CHOOSE k \in 1..Len(out) : HeaderAt(k)
    IN  SubSeq(out, h + 1, Len(out))

\* a candidate that failed lies strictly between two frequencies
FailedBetween(lo, hi) ==
    \E k \in 1..Len(calls) :
        IsNoPll(Answer(k)) /\ lo < Attempted(k) /\ Attempted(k) < hi

\* the m-th successful frequency opens a band
OpensBand(m) == m = 1 \/ (m > 1 /\ found[m] - found[m - 1] > fstep)

\* where the m-th successful frequency stands in the report
LinePos(m) == m + Cardinality({j \in 1..m : OpensBand(j)})

\* the number shown is the frequency in MHz to two decimals
Shows(val, freq) == 10000 * val - 5000 <= freq /\ freq < 10000 * val + 5000

\* C5: (fstep > 0, the sweep's input contract) the report lists every
\* successful frequency exactly once, in order, and prints a separator before
\* the first one and between two consecutive ones exactly when their gap
\* exceeds fstep, which is exactly when a candidate between them failed;
\* nothing else is printed.  Successes 100,101,102,110,111 with fstep = 1 give
\* the bands 100-102 and 110-111.
C5_ReportIsMaximalBands ==
    (Completed /\ fstep > 0) =>
        LET r == ReportPart
            L == Len(found)
        IN  /\ Len(r) = (IF L = 0 THEN 0 ELSE LinePos(L))
            /\ \A m \in 1..L :
                  /\ r[LinePos(m)].kind = "freq"
                  /\ Shows(r[LinePos(m)].val, found[m])
                  /\ r[LinePos(m) - 1].kind = "---" <=> OpensBand(m)
                  /\ m > 1 => (OpensBand(m) <=> FailedBetween(found[m - 1], found[m]))
            /\ \A q \in 1..Len(r) :
                  (\A m \in 1..L : q # LinePos(m)) => r[q].kind = "---"
            /\ (found = <<100, 101, 102, 110, 111>> /\ fstep = 1) =>
                  [q \in 1..Len(r) |-> r[q].kind] =
                      <<"---", "freq", "freq", "freq", "---", "freq", "freq">>

\* C5 witness: the report of the successes 100,101,102,110,111 with fstep = 1.
C5_Witness ==
    /\ pc = "reported"
    /\ fstep = 1
    /\ found = <<100, 101, 102, 110, 111>>

\* C6: no configuration is submitted to the PLL twice, and a sweep that
\* completes has validated every candidate fmin + m*fstep of its range exactly
\* once, whether it succeeded or failed.
C6_EachCandidateExactlyOnce ==
    /\ \A j, k \in 1..Len(calls) : j # k => calls[j].cfg # calls[k].cfg
    /\ Completed =>
          /\ \A m \in 0..(n - 1) :
                Cardinality({k \in 1..Len(calls) :
                                Attempted(k) = fmin + m * fstep}) = 1
          /\ Len(calls) = (IF n > 0 THEN n ELSE 0)

\* C6 witness: a completed sweep of at least three candidates, some of which
\* succeeded and some of which failed.
C6_Witness ==
    /\ pc = "exited"
    /\ Len(calls) >= 3
    /\ \E k \in 1..Len(calls) : IsNoPll(Answer(k))
    /\ \E k \in 1..Len(calls) : ~Answer(k).raises

\* C7: the i-th candidate attempted (i from 0) is fmin + i*fstep, consecutive
\* candidates differ by exactly fstep, and (fstep > 0, the sweep's input
\* contract) each is greater than the one before.
C7_CandidatesEvenlySpacedIncreasing ==
    /\ \A k \in 1..Len(calls) : Attempted(k) = fmin + (k - 1) * fstep
    /\ \A k \in 2..Len(calls) : Attempted(k) - Attempted(k - 1) = fstep
    /\ fstep > 0 => \A k \in 2..Len(calls) : Attempted(k) > Attempted(k - 1)

\* C7 witness: three candidates attempted with a positive step.
C7_Witness ==
    /\ pc = "loop"
    /\ fstep > 0
    /\ Len(calls) >= 3

\* the trials that ended with a mark, i.e. did not end the scan
Marked == {k \in 1..Len(calls) : ~IsOtherError(Answer(k))}

IsMark(l) == l.kind = "." \/ l.kind = "X"

\* C8: the marks printed during the sweep are the scan result in generation
\* order: the k-th mark is the outcome of the k-th candidate fmin + (k-1)*fstep,
\* "." for a success and "X" for a failure, one mark per candidate tried, and
\* the frequencies kept in found are those of the "." marks, in the same order.
C8_OutcomesInGenerationOrder ==
    /\ \A k \in Marked :
          /\ k <= Len(out)
          /\ out[k].kind = (IF Answer(k).raises THEN "X" ELSE ".")
          /\ Attempted(k) = fmin + (k - 1) * fstep
          /\ out[k].kind = "." =>
                LET j == Cardinality({q \in 1..k : out[q].kind = "."})
                IN  j <= Len(found) /\ found[j] = fmin + (k - 1) * fstep
    /\ \A q \in 1..Len(out) : IsMark(out[q]) => q \in Marked
    /\ Len(found) = Cardinality({q \in 1..Len(out) : out[q].kind = "."})

\* C8 witness: a completed sweep whose marks read X . X for its first three
\* candidates.
C8_Witness ==
    /\ pc = "exited"
    /\ Len(calls) >= 3
    /\ out[1].kind = "X" /\ out[2].kind = "." /\ out[3].kind = "X"

\* a PLL that accepts exactly the system clocks in [45e6, 55e6]
BandPll(f) == IF 45 * MHz <= f /\ f <= 55 * MHz THEN Returned ELSE NoPllFound

ScenarioC9 ==
    /\ fmin = 40 * MHz /\ fmax = 60 * MHz /\ fstep = 5 * MHz
    /\ \A k \in 1..Len(calls) : Answer(k) = BandPll(Attempted(k))

\* C9: the sweep 40e6 60e6 5e6 against a PLL that accepts exactly [45e6, 55e6]
\* attempts 40e6, 45e6, 50e6, 55e6 in that order and nothing else, is never
\* stopped by an error, and on completion has the outcomes fail, pass, pass,
\* pass and reports the single band 45.00, 50.00, 55.00 MHz.
C9_ScenarioOneBand ==
    ScenarioC9 =>
        /\ pc # "raised"
        /\ Len(calls) <= 4
        /\ \A k \in 1..Len(calls) :
              Attempted(k) = <<40 * MHz, 45 * MHz, 50 * MHz, 55 * MHz>>[k]
        /\ Completed =>
              /\ Len(calls) = 4
              /\ [k \in 1..4 |-> out[k].kind] = <<"X", ".", ".", ".">>
              /\ found = <<45 * MHz, 50 * MHz, 55 * MHz>>
              /\ ReportPart = <<Line("---", 0), Line("freq", 4500),
                                Line("freq", 5000), Line("freq", 5500)>>

\* C9 witness: that sweep, completed.
C9_Witness ==
    /\ ScenarioC9
    /\ pc = "exited"
    /\ Len(calls) = 4

\* C10: a sweep that ends without a fatal error (a step that is not 0 and no
\* validation error other than "No PLL config found") ends with sys.exit(0),
\* whatever the outcomes of its candidates.
C10_CompletedScanExitsZero ==
    /\ pc = "exited" => exitcode = <<0>>
    /\ (exitcode # <<>> /\ fstep # 0
            /\ \A k \in 1..Len(calls) : ~IsOtherError(Answer(k)))
          => (pc = "exited" /\ exitcode = <<0>>)

\* C10 witness: a sweep has ended in which every candidate failed.
C10_Witness ==
    /\ pc = "exited"
    /\ Len(calls) >= 2
    /\ found = <<>>

\* the places of main() that belong to the --scan-pll branch and its ends
ScanPlaces == {"main", "loop", "reported", "exited", "raised"}

\* C11: when --scan-pll is given the run does nothing outside the process:
\* no SoC is constructed, the builder is not run, no bitstream is loaded or
\* flashed and the remote bus is not touched, whatever --build, --load,
\* --flash and --load-bios say; the run stays in the scan branch until it ends.
C11_ScanHasNoSideEffects ==
    args.scan_pll => (effects = <<>> /\ pc \in ScanPlaces)

\* C11 witness: a sweep given together with --build, --load, --flash and
\* --load-bios has tried candidates and exited.
C11_Witness ==
    /\ args.scan_pll
    /\ args.build /\ args.load /\ args.flash /\ args.load_bios
    /\ pc = "exited"
    /\ Len(calls) >= 2

\* the second run has ended
Ended == pc \in {"exited", "raised"}

\* the PLL model is unchanged: a configuration submitted in both runs got the
\* same answer in both
SamePll ==
    \A j \in 1..Len(calls), k \in 1..Len(prev_run.calls) :
        calls[j].cfg = prev_run.calls[k].cfg => calls[j].resp = prev_run.calls[k].resp

\* the configurations submitted, in order
Cfgs(cs) == [k \in 1..Len(cs) |-> cs[k].cfg]

IsPrefix(a, b) == Len(a) <= Len(b) /\ \A k \in 1..Len(a) : a[k] = b[k]

\* C13 as stated: two runs with the same three numbers submit the same
\* configurations and print the same, whatever the other options are.
C13_OnlyThreeInputsMatter ==
    (run = 2 /\ Ended /\ SamePll)
    => /\ Cfgs(calls) = Cfgs(prev_run.calls)
       /\ out = prev_run.out

\* C13 amended: two runs with the same three numbers and the same
\* --iodelay-clk-freq against an unchanged PLL submit the same configurations
\* and print the same, whatever --sys-clk-freq is.
C13_ThreeInputsAndIoDelayMatter ==
    (run = 2 /\ iodelay_clk_freq = prev_run.iodelay_clk_freq /\ SamePll)
    => /\ IsPrefix(Cfgs(calls), Cfgs(prev_run.calls))
       /\ Ended => /\ Cfgs(calls) = Cfgs(prev_run.calls)
                   /\ out = prev_run.out
                   /\ found = prev_run.found

\* C13 witness: a second run with another --sys-clk-freq and the same
\* --iodelay-clk-freq has completed a sweep of at least three candidates.
C13_Witness ==
    /\ run = 2
    /\ args.sys_clk_freq # prev_run.args.sys_clk_freq
    /\ iodelay_clk_freq = prev_run.iodelay_clk_freq
    /\ SamePll
    /\ pc = "exited"
    /\ Len(calls) >= 3

\* C14: each trial is independent.  A trial submits a configuration built
\* from this iteration's candidate alone, changes nothing but the loop index,
\* found, the output and (when it ends the scan) the place and exit status,
\* adds to found at most its own candidate; and whatever happened before,
\* the PLL can still answer the next candidate in every way.
C14_TrialsAreIndependent ==
    /\ [](pc = "loop" /\ i < n => \A r \in Outcomes : ENABLED Trial(r))
    /\ [][(pc = "loop" /\ calls' # calls) =>
            LET freq == fmin + i * fstep
            IN  /\ Len(calls') = Len(calls) + 1
                /\ SubSeq(calls', 1, Len(calls)) = calls
                /\ calls'[Len(calls')].cfg =
                      [clkin |-> 100 * MHz, sys |-> freq, sys2x |-> 2 * freq,
                       sys8x |-> 8 * freq, idelay |-> iodelay_clk_freq]
                /\ found' = found \/ found' = Append(found, freq)
                /\ UNCHANGED <<fmin, fmax, fstep, iodelay_clk_freq, n>>
                /\ UNCHANGED mainvars]_vars

\* C14 witness: a success, then a failure, then a success.
C14_Witness ==
    /\ pc = "loop"
    /\ Len(calls) = 3
    /\ ~Answer(1).raises /\ IsNoPll(Answer(2)) /\ ~Answer(3).raises

\* C15: every configuration submitted to the PLL consists of the 100 MHz
\* reference and the four outputs together: the system clock at the candidate
\* f, 2*f, 8*f, and the I/O-delay clock at --iodelay-clk-freq, the same for
\* every candidate.
C15_ConfigurationSubmitted ==
    \A k \in 1..Len(calls) :
        LET c == calls[k].cfg
        IN  /\ DOMAIN c = {"clkin", "sys", "sys2x", "sys8x", "idelay"}
            /\ c.clkin = 100 * MHz
            /\ c.sys = fmin + (k - 1) * fstep
            /\ c.sys2x = 2 * c.sys
            /\ c.sys8x = 8 * c.sys
            /\ c.idelay = iodelay_clk_freq
            /\ c.idelay = calls[1].cfg.idelay

\* C15 witness: four configurations have been submitted with the I/O-delay
\* clock at 400 MHz.
C15_Witness ==
    /\ Len(calls) = 4
    /\ iodelay_clk_freq = 400 * MHz
    /\ calls[4].cfg.sys8x = 8 * 55 * MHz

\* C16: for fmin < fmax and fstep > 0 the sweep terminates: it reaches its
\* exit or stops on an error; every turn of the loop brings the index closer
\* to the end of the range; and a sweep that exits has printed the report
\* after exactly floor((fmax-fmin)/fstep) validation calls.
C16_SweepTerminates ==
    /\ (fmin < fmax /\ fstep > 0) => <>(pc \in {"exited", "raised"})
    /\ []((fmin < fmax /\ fstep > 0 /\ pc = "exited") =>
            /\ HeaderPrinted
            /\ Len(calls) * fstep <= fmax - fmin
            /\ fmax - fmin < (Len(calls) + 1) * fstep)
    /\ [][(pc = "loop" /\ pc' = "loop") => (i < n /\ n - i' < n - i)]_vars

\* C16 witness: the sweep 100 112 1 has exited after twelve validation calls.
C16_Witness ==
    /\ pc = "exited"
    /\ fmin = 100 /\ fmax = 112 /\ fstep = 1
    /\ Len(calls) = 12

\* C17: for fmin < fmax and fstep > 0 every candidate attempted lies in
\* [fmin, fmax): the first one is fmin, a completed sweep whose range holds at
\* least one step has attempted fmin, and fmax itself is never attempted.
C17_CandidatesInHalfOpenRange ==
    (fmin < fmax /\ fstep > 0) =>
        /\ \A k \in 1..Len(calls) : fmin <= Attempted(k) /\ Attempted(k) < fmax
        /\ Len(calls) >= 1 => Attempted(1) = fmin
        /\ (Completed /\ fmax - fmin >= fstep) => Len(calls) >= 1

\* C17 witness: a completed sweep whose range is a whole number of steps; its
\* last candidate is fmax - fstep.
C17_Witness ==
    /\ Completed
    /\ fmin < fmax /\ fstep > 0
    /\ (fmax - fmin) % fstep = 0
    /\ Len(calls) >= 2
    /\ Attempted(Len(calls)) = fmax - fstep

\* C18: with fstep > 0 and fmax <= fmin, or fmax - fmin < fstep, the input is
\* not rejected: the sweep attempts no candidate, is not stopped by an error,
\* prints the report header and nothing else, and exits with status 0.
C18_EmptyRangeIsNotAnError ==
    (fstep > 0 /\ (fmax <= fmin \/ fmax - fmin < fstep)) =>
        /\ calls = <<>>
        /\ pc # "raised"
        /\ pc = "main" \/ n <= 0
        /\ Completed => out = <<Line("Found PLL configs for:", 0)>>
        /\ exitcode # <<>> => (pc = "exited" /\ exitcode = <<0>>)

\* C18 witness: a sweep with fmax below fmin has exited.
C18_Witness ==
    /\ pc = "exited"
    /\ fstep > 0
    /\ fmax < fmin
    /\ out = <<Line("Found PLL configs for:", 0)>>

\* the writes issued on the remote bus so far, in order
Writes == SelectSeq(effects, LAMBDA e : e.op = "write")

\* the words of the writes ws: <<k, m>> is word m of write k
WordsOf(ws) == UNION {{<<k, m>> : m \in 1..Len(ws[k].data)} : k \in 1..Len(ws)}

\* the address word m of the write e lands at
WordAddr(e, m) == e.addr + 4 * (m - 1)

\* C19: memwrite covers the data exactly once in ascending address order.
\* For every data length and burst > 0, chunk k starts at word index
\* (k-1)*burst, is written at base + 4*(k-1)*burst, is non-empty, at most
\* burst words long, holds the data words that follow its start, and is full
\* unless it is the last; when memwrite has returned, word j of the data has
\* been written to base + 4*j exactly once and nothing has been written
\* outside [base, base + 4*len(data)).
C19_MemwriteCoversDataOnce ==
    LET ws == Writes
        len == Len(rom_data)
    IN  /\ \A k \in 1..Len(ws) :
              LET s == (k - 1) * burst
                  c == ws[k].data
              IN  /\ ws[k].addr = rom_base + 4 * s
                  /\ c # <<>>
                  /\ Len(c) <= burst
                  /\ s + Len(c) <= len
                  /\ \A m \in 1..Len(c) : c[m] = rom_data[s + m]
                  /\ k < Len(ws) => (Len(c) = burst /\ ws[k].addr < ws[k + 1].addr)
        /\ pc = "bios_reboot" =>
              /\ \A j \in 0..(len - 1) :
                    LET hits == {p \in WordsOf(ws) :
                                   WordAddr(ws[p[1]], p[2]) = rom_base + 4 * j}
                    IN  /\ Cardinality(hits) = 1
                        /\ \A p \in hits : ws[p[1]].data[p[2]] = rom_data[j + 1]
              /\ \A p \in WordsOf(ws) :
                    /\ rom_base <= WordAddr(ws[p[1]], p[2])
                    /\ WordAddr(ws[p[1]], p[2]) < rom_base + 4 * len

\* C19 witness: six words written with burst 4, in a full chunk and a short
\* one, and memwrite has returned.
C19_Witness ==
    /\ pc = "bios_reboot"
    /\ burst = 4
    /\ Len(rom_data) = 6
    /\ Len(Writes) = 2
    /\ Len(Writes[2].data) = 2

\* the remote-bus operations among the effects
IsBusOp(e) == e.op \in {"open", "reg", "write", "read", "close"}

\* the positions of effects that hold the effect e, resp. an operation op
PosOf(e) == {k \in 1..Len(effects) : effects[k] = e}
PosOfOp(op) == {k \in 1..Len(effects) : effects[k].op = op}

\* the number of data words written before position k of effects
RECURSIVE WordsBefore(_)
WordsBefore(k) ==
    IF k <= 1 THEN 0
    ELSE WordsBefore(k - 1)
         + (IF effects[k - 1].op = "write" THEN Len(effects[k - 1].data) ELSE 0)

\* C20: in the BIOS reload of antmicro_lpddr4_test_board and digilent_arty
\* the CPU is held in reset during the whole ROM update.  Every ROM write
\* comes after the asserting register write (ctrl_reset_hold = 1, resp.
\* ctrl_reset = 0b10), which comes after the connection is opened; the
\* releasing write (0) comes only after every ROM word has been written and
\* the ROM base has been read back; and the connection is closed last.
C20_CpuHeldInResetDuringRomUpdate ==
    target \in {"antmicro", "arty"} =>
        LET reg == IF target = "antmicro" THEN "ctrl_reset_hold" ELSE "ctrl_reset"
            asserting == [op |-> "reg", reg |-> reg, addr |-> 0,
                          data |-> <<IF target = "antmicro" THEN 1 ELSE 2>>]
            releasing == [op |-> "reg", reg |-> reg, addr |-> 0, data |-> <<0>>]
        IN  /\ \A k \in PosOfOp("reg") : effects[k] \in {asserting, releasing}
            /\ \A k \in PosOf(asserting) :
                  /\ \E o \in PosOfOp("open") : o < k
                  /\ \A x \in PosOfOp("write") : k < x
            /\ \A k \in PosOfOp("write") :
                  /\ \E a \in PosOf(asserting) : a < k
                  /\ \A r \in PosOf(releasing) : k < r
            /\ \A r \in PosOf(releasing) :
                  /\ WordsBefore(r) = Len(rom_data)
                  /\ effects[r - 1] = [op |-> "read", reg |-> "",
                                       addr |-> rom_base, data |-> <<>>]
            /\ \A c \in PosOfOp("close") :
                  /\ \E r \in PosOf(releasing) : r < c
                  /\ \A k \in 1..Len(effects) : IsBusOp(effects[k]) => k <= c

\* C20 witness: the arty reload of a three-word image has closed the
\* connection.
C20_Witness ==
    /\ target = "arty"
    /\ Len(rom_data) = 3
    /\ PosOfOp("close") # {}
    /\ Len(Writes) = 3

\* C21: in the BIOS reload of lpddr4_test_board the CPU reboot
\* (ctrl_reset = 1) is the only reset register write; it is issued at most
\* once, and exactly once when the reload has closed the connection; it comes
\* after every ROM word has been written and the ROM base has been read back,
\* and before the connection is closed.  No register is written before or
\* between the ROM writes.
C21_RebootOnceAfterRomUpdate ==
    target = "lpddr4" =>
        LET reboot == [op |-> "reg", reg |-> "ctrl_reset", addr |-> 0, data |-> <<1>>]
        IN  /\ \A k \in PosOfOp("reg") : effects[k] = reboot
            /\ Cardinality(PosOfOp("reg")) <= 1
            /\ \A k \in PosOfOp("reg") :
                  /\ \A x \in PosOfOp("write") : x < k
                  /\ WordsBefore(k) = Len(rom_data)
                  /\ effects[k - 1] = [op |-> "read", reg |-> "",
                                       addr |-> rom_base, data |-> <<>>]
                  /\ \A c \in PosOfOp("close") : k < c
            /\ \A x \in PosOfOp("write") :
                  /\ \E o \in PosOfOp("open") : o < x
                  /\ \A k \in 1..x : effects[k].op # "reg"
            /\ \A c \in PosOfOp("close") : Cardinality(PosOfOp("reg")) = 1

\* C21 witness: the lpddr4 reload of an image of two bursts and ten words has
\* rebooted the CPU and closed the connection.
C21_Witness ==
    /\ target = "lpddr4"
    /\ Len(rom_data) = 2 * DefaultBurst + 10
    /\ Len(Writes) = 3
    /\ PosOfOp("reg") # {}
    /\ PosOfOp("close") # {}

\* the effects of kind op have been carried out
Done(op) == PosOfOp(op) # {}

\* C22: in antmicro_lpddr4_test_board and lpddr4_test_board, --load-bios
\* without --rw-bios-mem fails the assertion before the connection is opened:
\* nothing is opened, written or read on the remote bus, and main() does
\* not go past the assertion.  When the run has failed the SoC has been
\* constructed and the builder run, --load has been carried out if given,
\* and in the antmicro target so has --flash; in the lpddr4 target --flash,
\* which comes after the reload, has not.  The code violates the last part:
\* with --load (or --flash in the antmicro target) the run fails in
\* create_programmer() and never evaluates the assertion.
C22_AssertionBeforeConnection ==
    (target \in {"antmicro", "lpddr4"} /\ ~args.scan_pll
       /\ args.load_bios /\ ~args.rw_bios_mem) =>
        /\ \A k \in 1..Len(effects) : ~IsBusOp(effects[k])
        /\ pc \in {"main", "load", "flash", "load_bios", "raised"}
        /\ pc = "raised" =>
              /\ exitcode = <<1>>
              /\ Done("soc")
              /\ \E k \in PosOfOp("build") :
                    effects[k].data = <<IF args.build THEN 1 ELSE 0>>
              /\ Done("load_bitstream") <=> args.load
              /\ Done("flash") <=> (args.flash /\ target = "antmicro")

\* C23: the power-on-reset counter starts at 2^16-1, decreases by exactly 1
\* on every clk100 edge while it is non-zero, changes at no other moment, and
\* holds at 0 afterwards without wrapping around; por_done is true exactly
\* when the counter is 0, that is from the 65535th clock edge on, and once
\* true it stays true.
C23_PorCountsDownOnce ==
    /\ [](/\ crg.por_count \in 0..(2^16 - 1)
          /\ edges = 0 => crg.por_count = 2^16 - 1
          /\ edges <= 65535 => crg.por_count = 65535 - edges
          /\ por_done(crg) <=> crg.por_count = 0
          /\ por_done(crg) <=> edges >= 65535)
    /\ [][/\ edges' = edges + 1 =>
                crg'.por_count = (IF crg.por_count # 0 THEN crg.por_count - 1 ELSE 0)
          /\ edges' = edges => crg'.por_count = crg.por_count
          /\ por_done(crg) => por_done(crg')]_vars

\* C23 witness: two clock edges after the count ran out, por_done is true.
C23_Witness ==
    /\ pc = "gateware"
    /\ edges = 65535 + 2
    /\ por_done(crg)

\* C24: the PLL reset is asserted exactly in the states in which the
\* power-on reset is not done or rst is asserted, hence during the whole
\* power-on count; and the resets of the sys and sys2x domains are asserted
\* whenever the PLL is not locked or the DDR PHY init reset is asserted.
C24_ResetsFollowPorAndLock ==
    pc = "gateware" =>
        /\ pll_reset(crg) <=> (crg.por_count # 0 \/ crg.rst)
        /\ edges < 65535 => pll_reset(crg)
        /\ (~crg.locked \/ crg.reset) => (crg.cd_sys.rst /\ crg.cd_sys2x.rst)

\* C24 witness: the count has run out, rst is low and the PLL reset is
\* released; the PLL is locked and both domains have left reset.
C24_Witness ==
    /\ pc = "gateware"
    /\ ~pll_reset(crg)
    /\ crg.locked /\ ~crg.reset
    /\ ~crg.cd_sys.rst /\ ~crg.cd_sys2x.rst

\* the construction of the SoC went through: BaseSoC(...) returned
Constructed == pc \in {"soc_built", "load"}

\* the SoC has the domain d, a PLL output for it, a submodule m
HasDomain(d) == d \in soc.clock_domains
HasClkout(d) == \E c \in soc.clkouts : c[1] = d
HasModule(m) == m \in soc.submodules

\* the builder has been run
Built == \E k \in 1..Len(effects) : effects[k].op = "build"

\* C25: in lpddr4_test_board, for every accepted combination of with_sdram,
\* with_ethernet and with_etherbone, the idelay domain, its 200 MHz PLL output
\* and the IDELAYCTRL exist exactly when the LPDDR4 PHY or the Ethernet PHY
\* is instantiated, that is when one of the three flags is set; the sys2x and
\* sys8x domains and PLL outputs exist exactly when the LPDDR4 PHY is
\* instantiated, that is with with_sdram.
C25_CrgMatchesPhys ==
    (target = "lpddr4" /\ Constructed) =>
        LET anyphy == HasModule("ddrphy") \/ HasModule("ethphy")
        IN  /\ HasModule("ddrphy") <=> opts.with_sdram
            /\ HasModule("ethphy") <=> (opts.with_ethernet \/ opts.with_etherbone)
            /\ HasDomain("idelay") <=> anyphy
            /\ HasClkout("idelay") <=> anyphy
            /\ \A c \in soc.clkouts : c[1] = "idelay" => c[2] = 200 * MHz
            /\ HasModule("idelayctrl") <=> anyphy
            /\ \A d \in {"sys2x", "sys8x"} :
                  /\ HasDomain(d) <=> HasModule("ddrphy")
                  /\ HasClkout(d) <=> HasModule("ddrphy")
            /\ HasDomain("sys") /\ HasClkout("sys")

\* C25 witness: a SoC constructed with Etherbone alone: no LPDDR4 PHY, no
\* sys2x, and the idelay clock for the Ethernet PHY.
C25_Witness ==
    /\ target = "lpddr4"
    /\ Constructed
    /\ opts.with_etherbone /\ ~opts.with_ethernet /\ ~opts.with_sdram
    /\ HasModule("ethphy") /\ HasModule("idelayctrl")
    /\ ~HasDomain("sys2x")

\* C26: Ethernet and Etherbone are never both attached to the Ethernet PHY.
\* With both options set, lpddr4_test_board fails an assertion during the
\* construction of the SoC, and antmicro_lpddr4_test_board and digilent_arty
\* reject the command line before anything is constructed; no SoC is built.
\* In the three targets a constructed SoC has the PHY exactly when one of the
\* two options is set.
C26_EthernetXorEtherbone ==
    target \in {"lpddr4", "antmicro", "arty"} =>
        /\ ~(HasModule("ethmac") /\ HasModule("etherbone"))
        /\ (opts.with_ethernet /\ opts.with_etherbone) =>
              /\ ~Constructed
              /\ pc # "soc_rest"
              /\ ~Built
              /\ pc \in {"raised", "exited"} =>
                    IF target = "lpddr4"
                    THEN pc = "raised" /\ exitcode = <<1>> /\ HasModule("pll")
                    ELSE pc = "exited" /\ exitcode = <<2>> /\ soc.submodules = {}
        /\ Constructed =>
              /\ HasModule("ethphy") <=> (opts.with_ethernet \/ opts.with_etherbone)
              /\ HasModule("ethmac") <=> opts.with_ethernet
              /\ HasModule("etherbone") <=> opts.with_etherbone

\* C26 witness: the antmicro command line with both options has been
\* rejected.
C26_Witness ==
    /\ target = "antmicro"
    /\ opts.with_ethernet /\ opts.with_etherbone
    /\ pc = "exited"
    /\ exitcode = <<2>>

\* C27: in lpddr4_test_board's main the integrated main RAM size is forced to
\* 0x10000 exactly when SDRAM is disabled and Ethernet or Etherbone is
\* enabled, and is the user's value otherwise; hence every SoC constructed
\* with Ethernet or Etherbone has a main RAM, the LPDDR4 SDRAM or the
\* integrated one.
C27_MainRamForEthernet ==
    (target = "lpddr4" /\ pc \notin {"parse_args", "checks"}) =>
        /\ IF ~opts.with_sdram /\ (opts.with_ethernet \/ opts.with_etherbone)
           THEN soc.kwargs.integrated_main_ram_size = 65536
           ELSE soc.kwargs.integrated_main_ram_size = opts.integrated_main_ram_size
        /\ (Constructed /\ (opts.with_ethernet \/ opts.with_etherbone)) =>
              (HasModule("sdram") \/ HasModule("integrated_main_ram"))

\* C27 witness: a SoC constructed with Ethernet, without SDRAM and with the
\* user's size 0 has the integrated main RAM of 0x10000 bytes.
C27_Witness ==
    /\ target = "lpddr4"
    /\ Constructed
    /\ opts.with_ethernet /\ ~opts.with_sdram
    /\ opts.integrated_main_ram_size = 0
    /\ soc.kwargs.integrated_main_ram_size = 65536
    /\ HasModule("integrated_main_ram")

\* C28: the forest_kitten_33 clock generator is constructed exactly for
\* 225e6 <= sys_clk_freq <= 450e6, both bounds included; outside that range
\* the construction fails with an assertion error, the SoC has no clock
\* generator and nothing is built.
C28_KittenClockRange ==
    target = "forest_kitten" =>
        LET f == opts.sys_clk_freq
            inrange == 225000000 <= f /\ f <= 450000000
        IN  /\ HasModule("pll") => inrange
            /\ inrange => pc # "raised"
            /\ ~inrange =>
                  /\ pc \in {"parse_args", "checks", "soc_core", "soc_crg", "raised"}
                  /\ pc = "raised" => exitcode = <<1>>
                  /\ ~HasModule("pll")
                  /\ ~Built

\* C28 witness: with 450000001 Hz the construction has failed.
C28_Witness ==
    /\ target = "forest_kitten"
    /\ opts.sys_clk_freq = 450 * MHz + 1
    /\ pc = "raised"
    /\ ~HasModule("pll")

====
